---------------------------- MODULE Spec2Model ----------------------------
(***************************************************************************)
(* A model of the IRC line codec of tadeokondrak/irc.                      *)
(*                                                                         *)
(* The repository holds two snapshots of the codec:                        *)
(*   src/irc.go           - the operators named Irc... below               *)
(*   src/unnamed/part_000 - the operators that keep the source's names     *)
(* parseCommand and parseParams are byte-for-byte the same in both, and    *)
(* are modelled once.                                                      *)
(*                                                                         *)
(* A string or byte slice is a sequence of byte values (0..255).  Go's     *)
(* cursor i counts the bytes consumed so far, so the next byte read is     *)
(* p[i+1] in the 1-based indexing used here.  The tag map is a function    *)
(* from keys to values.                                                    *)
(***************************************************************************)
EXTENDS Integers, Sequences, FiniteSets, TLC

(***************************************************************************)
(* The bytes the code compares against.                                    *)
(***************************************************************************)
LF == 10
CR == 13
SP == 32
BANG == 33
COLON == 58
SEMI == 59
EQUALS == 61
AT == 64
BACKSLASH == 92
UpperA == 65
LowerA == 97
LowerB == 98
LowerN == 110
LowerR == 114
LowerS == 115
LowerZ == 122

(***************************************************************************)
(* Bounds of the model.                                                    *)
(***************************************************************************)
MaxLineLen == 5
MaxTagLen == 5
MaxPrefixLen == 5
MaxParamLen == 6
MaxValueLen == 3
MaxParams == 2
MaxArgLen == 1
MaxCommandLen == 4
Goroutines == 2
MaxEscapeLen == 3
MaxFrameLen == 2
MaxLines == 2

(***************************************************************************)
(* Sequence helpers.                                                       *)
(***************************************************************************)
BSeq(S, k) == UNION {[1..m -> S] : m \in 0..k}

Drop(p, k) == SubSeq(p, k + 1, Len(p))

Take(p, k) == SubSeq(p, 1, k)

Contains(p, S) == \E k \in 1..Len(p) : p[k] \in S

RECURSIVE Flatten(_)
Flatten(ss) == IF ss = <<>> THEN <<>> ELSE Head(ss) \o Flatten(Tail(ss))

Perms(S) == {f \in [1..Cardinality(S) -> S] : \A x \in S : \E k \in DOMAIN f : f[k] = x}

(***************************************************************************)
(* The data model: Tags, Prefix, Message.                                  *)
(***************************************************************************)
NoTags == <<>>

NoPrefix == [Name |-> <<>>, User |-> <<>>, Host |-> <<>>]

NoMessage == [Tags |-> NoTags, Prefix |-> NoPrefix, Command |-> <<>>, Params |-> <<>>]

\* tags[key] = value: a later assignment overwrites an earlier one.
mutSetTagKeepFirst(tags, key, value) == IF key \in DOMAIN tags THEN tags ELSE (key :> value) @@ tags

SetTag(tags, key, value) == (key :> value) @@ tags

\* if key.Len() != 0 { tags[key.String()] = value.String() }
mutCommitAlways(tags, key, value) == SetTag(tags, key, value)

Commit(tags, key, value) == IF Len(key) # 0 THEN SetTag(tags, key, value) ELSE tags

(***************************************************************************)
(* Tag Codec: decode.                                                      *)
(***************************************************************************)
stKey == 0
stValue == 1
stEscape == 2

\* The default branch of the byte switch: one step of the three-state scanner.
mutTagByteEscapeLiteral(st, key, value, b) ==
    CASE st = stKey -> [st |-> stKey, key |-> Append(key, b), value |-> value]
      [] st = stValue /\ b = BACKSLASH -> [st |-> stEscape, key |-> key, value |-> value]
      [] OTHER -> [st |-> stValue, key |-> key, value |-> Append(value, b)]

TagByte(st, key, value, b) ==
    CASE st = stKey -> [st |-> stKey, key |-> Append(key, b), value |-> value]
      [] st = stValue /\ b = BACKSLASH -> [st |-> stEscape, key |-> key, value |-> value]
      [] st = stValue -> [st |-> stValue, key |-> key, value |-> Append(value, b)]
      [] st = stEscape /\ b = COLON -> [st |-> stValue, key |-> key, value |-> Append(value, SEMI)]
      [] st = stEscape /\ b = LowerS -> [st |-> stValue, key |-> key, value |-> Append(value, SP)]
      [] st = stEscape /\ b = BACKSLASH -> [st |-> stValue, key |-> key, value |-> Append(value, BACKSLASH)]
      [] st = stEscape /\ b = LowerR -> [st |-> stValue, key |-> key, value |-> Append(value, CR)]
      [] st = stEscape /\ b = LowerN -> [st |-> stValue, key |-> key, value |-> Append(value, LF)]
      [] OTHER -> [st |-> stValue, key |-> key, value |-> Append(value, b)]

\* The scan loop of parseTags, entered with i bytes consumed.
RECURSIVE tagsLoop(_, _, _, _, _, _)
tagsLoop(p, i, st, key, value, tags) ==
    IF i >= Len(p) THEN [tags |-> Commit(tags, key, value), n |-> i]
    ELSE LET b == p[i + 1] IN
         CASE b = SP -> [tags |-> Commit(tags, key, value), n |-> i + 1]
           [] b \in {CR, LF} -> [tags |-> Commit(tags, key, value), n |-> i]
           [] b = SEMI -> tagsLoop(p, i + 1, stKey, <<>>, <<>>, Commit(tags, key, value))
           [] b = EQUALS -> tagsLoop(p, i + 1, stValue, key, value, tags)
           [] OTHER -> LET s == TagByte(st, key, value, b)
                       IN tagsLoop(p, i + 1, s.st, s.key, s.value, tags)

\* src/unnamed/part_000: guarded against the empty buffer.
parseTags(p) ==
    IF Len(p) = 0 \/ p[1] # AT THEN [tags |-> NoTags, n |-> 0]
    ELSE tagsLoop(p, 1, stKey, <<>>, <<>>, NoTags)

\* src/irc.go: p[i] is read unguarded; on the empty buffer the run-time panics.
IrcParseTags(p) ==
    IF Len(p) = 0 THEN [panic |-> TRUE, tags |-> NoTags, n |-> 0]
    ELSE IF p[1] # AT THEN [panic |-> FALSE, tags |-> NoTags, n |-> 0]
    ELSE LET r == tagsLoop(p, 1, stKey, <<>>, <<>>, NoTags)
         IN [panic |-> FALSE, tags |-> r.tags, n |-> r.n]

(***************************************************************************)
(* Prefix Parser.                                                          *)
(***************************************************************************)
\* One of the three field loops of parsePrefix, entered with i bytes consumed:
\* it stops before a byte of marks and before CR or LF, after a space, and at
\* the end of the buffer.
RECURSIVE scanField(_, _, _, _)
scanField(p, i, marks, acc) ==
    IF i >= Len(p) THEN [field |-> acc, n |-> i, how |-> "eof"]
    ELSE LET b == p[i + 1] IN
         CASE b \in marks -> [field |-> acc, n |-> i, how |-> "mark"]
           [] b = SP -> [field |-> acc, n |-> i + 1, how |-> "sp"]
           [] b \in {CR, LF} -> [field |-> acc, n |-> i, how |-> "crlf"]
           [] OTHER -> scanField(p, i + 1, marks, Append(acc, b))

\* The host section: if i < len(p) && p[i] == '@' { ... }; return prefix, i
mutHostSectionNoHost(p, i, name, user) ==
    [prefix |-> [Name |-> name, User |-> user, Host |-> <<>>], n |-> i]

hostSection(p, i, name, user) ==
    IF i < Len(p) /\ p[i + 1] = AT
    THEN LET ho == scanField(p, i + 1, {}, <<>>)
         IN [prefix |-> [Name |-> name, User |-> user, Host |-> ho.field], n |-> ho.n]
    ELSE [prefix |-> [Name |-> name, User |-> user, Host |-> <<>>], n |-> i]

\* The user section and what follows it.
userSection(p, i, name) ==
    IF i < Len(p) /\ p[i + 1] = BANG
    THEN LET us == scanField(p, i + 1, {AT}, <<>>)
         IN IF us.how \in {"sp", "crlf"}
            THEN [prefix |-> [Name |-> name, User |-> us.field, Host |-> <<>>], n |-> us.n]
            ELSE hostSection(p, us.n, name, us.field)
    ELSE hostSection(p, i, name, <<>>)

\* src/unnamed/part_000: every index is guarded and every field is committed
\* when its loop runs to the end of the buffer.
parsePrefix(p) ==
    IF Len(p) = 0 \/ p[1] # COLON THEN [prefix |-> NoPrefix, n |-> 0]
    ELSE LET nm == scanField(p, 1, {BANG, AT}, <<>>)
         IN IF nm.how \in {"sp", "crlf"}
            THEN [prefix |-> [Name |-> nm.field, User |-> <<>>, Host |-> <<>>], n |-> nm.n]
            ELSE userSection(p, nm.n, nm.field)

\* src/irc.go: the host section.  A host that runs to the end of the buffer
\* is never assigned to prefix.Host.
IrcHostSection(p, i, name, user) ==
    IF p[i + 1] = AT
    THEN LET ho == scanField(p, i + 1, {}, <<>>)
         IN [panic |-> FALSE,
             prefix |-> [Name |-> name, User |-> user,
                         Host |-> IF ho.how = "eof" THEN <<>> ELSE ho.field],
             n |-> ho.n]
    ELSE [panic |-> FALSE, prefix |-> [Name |-> name, User |-> user, Host |-> <<>>], n |-> i]

\* src/irc.go: p[i] is read unguarded after each loop, so a loop that ran to
\* the end of the buffer is followed by an index out of range.
IrcParsePrefix(p) ==
    IF Len(p) = 0 THEN [panic |-> TRUE, prefix |-> NoPrefix, n |-> 0]
    ELSE IF p[1] # COLON THEN [panic |-> FALSE, prefix |-> NoPrefix, n |-> 0]
    ELSE LET nm == scanField(p, 1, {BANG, AT}, <<>>)
         IN CASE nm.how \in {"sp", "crlf"} ->
                   [panic |-> FALSE,
                    prefix |-> [Name |-> nm.field, User |-> <<>>, Host |-> <<>>], n |-> nm.n]
              [] nm.how = "eof" -> [panic |-> TRUE, prefix |-> NoPrefix, n |-> nm.n]
              [] OTHER ->
                   IF p[nm.n + 1] = BANG
                   THEN LET us == scanField(p, nm.n + 1, {AT}, <<>>)
                        IN CASE us.how \in {"sp", "crlf"} ->
                                  [panic |-> FALSE,
                                   prefix |-> [Name |-> nm.field, User |-> us.field,
                                               Host |-> <<>>],
                                   n |-> us.n]
                             [] us.how = "eof" ->
                                  [panic |-> TRUE,
                                   prefix |-> [Name |-> nm.field, User |-> <<>>,
                                               Host |-> <<>>],
                                   n |-> us.n]
                             [] OTHER -> IrcHostSection(p, us.n, nm.field, us.field)
                   ELSE IrcHostSection(p, nm.n, nm.field, <<>>)

(***************************************************************************)
(* Command Parser.                                                         *)
(***************************************************************************)
\* if 'a' <= b && b <= 'z' { b -= 'a' - 'A' }
mutToUpperExclusive(b) == IF LowerA < b /\ b < LowerZ THEN b - (LowerA - UpperA) ELSE b

ToUpper(b) == IF LowerA <= b /\ b <= LowerZ THEN b - (LowerA - UpperA) ELSE b

RECURSIVE commandLoop(_, _, _)
commandLoop(p, i, command) ==
    IF i >= Len(p) THEN [command |-> command, n |-> i]
    ELSE LET b == p[i + 1] IN
         CASE b = SP -> [command |-> command, n |-> i + 1]
           [] b \in {CR, LF} -> [command |-> command, n |-> i]
           [] OTHER -> commandLoop(p, i + 1, Append(command, ToUpper(b)))

parseCommand(p) == commandLoop(p, 0, <<>>)

(***************************************************************************)
(* Params Parser.                                                          *)
(***************************************************************************)
\* The raw loop entered after the trailing marker.
RECURSIVE trailingLoop(_, _, _, _)
trailingLoop(p, i, params, param) ==
    IF i >= Len(p) THEN [params |-> Append(params, param), n |-> i]
    ELSE LET b == p[i + 1] IN
         IF b \in {CR, LF} THEN [params |-> Append(params, param), n |-> i]
         ELSE trailingLoop(p, i + 1, params, Append(param, b))

\* case ':' of the token loop, read with i bytes consumed before it.
\* Returns what the scan does next: switch to the raw loop, or go on.
mutColonStepAppend(params, param) ==
    IF Len(param) = 0 THEN [trailing |-> TRUE, param |-> param]
    ELSE [trailing |-> FALSE, param |-> Append(param, COLON)]

mutColonStepNeverTrailing(params, param) == [trailing |-> FALSE, param |-> param]

colonStep(params, param) ==
    IF Len(param) = 0 THEN [trailing |-> TRUE, param |-> param]
    ELSE [trailing |-> FALSE, param |-> param]

RECURSIVE mutParamsLoopKeepEmpty(_, _, _, _)
mutParamsLoopKeepEmpty(p, i, params, param) ==
    IF i >= Len(p)
    THEN [params |-> IF Len(param) # 0 THEN Append(params, param) ELSE params, n |-> i]
    ELSE LET b == p[i + 1] IN
         CASE b = SP -> mutParamsLoopKeepEmpty(p, i + 1, Append(params, param), <<>>)
           [] b \in {CR, LF} ->
                [params |-> IF Len(param) # 0 THEN Append(params, param) ELSE params,
                 n |-> i]
           [] b = COLON ->
                LET c == colonStep(params, param)
                IN IF c.trailing THEN trailingLoop(p, i + 1, params, c.param)
                   ELSE mutParamsLoopKeepEmpty(p, i + 1, params, c.param)
           [] OTHER -> mutParamsLoopKeepEmpty(p, i + 1, params, Append(param, b))

\* The token loop of parseParams.
RECURSIVE paramsLoop(_, _, _, _)
paramsLoop(p, i, params, param) ==
    IF i >= Len(p)
    THEN [params |-> IF Len(param) # 0 THEN Append(params, param) ELSE params, n |-> i]
    ELSE LET b == p[i + 1] IN
         CASE b = SP ->
                IF Len(param) # 0
                THEN paramsLoop(p, i + 1, Append(params, param), <<>>)
                ELSE paramsLoop(p, i + 1, params, param)
           [] b \in {CR, LF} ->
                [params |-> IF Len(param) # 0 THEN Append(params, param) ELSE params,
                 n |-> i]
           [] b = COLON ->
                LET c == colonStep(params, param)
                IN IF c.trailing THEN trailingLoop(p, i + 1, params, c.param)
                   ELSE paramsLoop(p, i + 1, params, c.param)
           [] OTHER -> paramsLoop(p, i + 1, params, Append(param, b))

parseParams(p) == paramsLoop(p, 0, <<>>, <<>>)

(***************************************************************************)
(* Message Assembler.                                                      *)
(***************************************************************************)
\* if len(p)-i >= 2 && p[i+0] == '\r' && p[i+1] == '\n' { i += 2 }
mutTerminatorLoneCR(p, i) ==
    IF Len(p) - i >= 2 /\ p[i + 1] = CR /\ p[i + 2] = LF THEN 2
    ELSE IF Len(p) - i >= 1 /\ p[i + 1] = CR THEN 1 ELSE 0

mutTerminatorNone(p, i) == 0

mutTerminatorAnyPair(p, i) ==
    IF Len(p) - i >= 2 /\ p[i + 1] \in {CR, LF} /\ p[i + 2] \in {CR, LF} THEN 2 ELSE 0

Terminator(p, i) == IF Len(p) - i >= 2 /\ p[i + 1] = CR /\ p[i + 2] = LF THEN 2 ELSE 0

\* src/unnamed/part_000
Parse(p) ==
    LET t == parseTags(p)
        x == parsePrefix(Drop(p, t.n))
        c == parseCommand(Drop(p, t.n + x.n))
        a == parseParams(Drop(p, t.n + x.n + c.n))
        i == t.n + x.n + c.n + a.n
    IN [message |-> [Tags |-> t.tags, Prefix |-> x.prefix, Command |-> c.command,
                     Params |-> a.params],
        n |-> i + Terminator(p, i)]

\* src/irc.go: a panic in parseTags or parsePrefix ends the call.
IrcParse(p) ==
    LET t == IrcParseTags(p)
        x == IrcParsePrefix(Drop(p, t.n))
        c == parseCommand(Drop(p, t.n + x.n))
        a == parseParams(Drop(p, t.n + x.n + c.n))
        i == t.n + x.n + c.n + a.n
    IN IF t.panic \/ x.panic THEN [panic |-> TRUE, message |-> NoMessage, n |-> 0]
       ELSE [panic |-> FALSE,
             message |-> [Tags |-> t.tags, Prefix |-> x.prefix, Command |-> c.command,
                          Params |-> a.params],
             n |-> i + Terminator(p, i)]

(***************************************************************************)
(* Tag Codec: encode, and the Message Serializer.                          *)
(*                                                                         *)
(* Go ranges over a map in an unspecified order: the serializers take the  *)
(* order of the keys as an argument, a permutation of DOMAIN tags.         *)
(***************************************************************************)
\* The switch over one value byte.
mutEscapeByteNoSemi(c) ==
    CASE c = SP -> <<BACKSLASH, LowerS>>
      [] c = BACKSLASH -> <<BACKSLASH, BACKSLASH>>
      [] c = CR -> <<BACKSLASH, LowerR>>
      [] c = LF -> <<BACKSLASH, LowerN>>
      [] OTHER -> <<c>>

EscapeByte(c) ==
    CASE c = SEMI -> <<BACKSLASH, COLON>>
      [] c = SP -> <<BACKSLASH, LowerS>>
      [] c = BACKSLASH -> <<BACKSLASH, BACKSLASH>>
      [] c = CR -> <<BACKSLASH, LowerR>>
      [] c = LF -> <<BACKSLASH, LowerN>>
      [] OTHER -> <<c>>

\* for j := 0; j < len(value); j++ { ... }
EscapeValue(value) == Flatten([j \in 1..Len(value) |-> EscapeByte(value[j])])

\* One pass of the loop over the map: the key, '=' before a non-empty value,
\* the escaped value, and ';' unless this is the last pair.
TagPair(t, order, k) ==
    order[k] \o (IF t[order[k]] # <<>> THEN <<EQUALS>> ELSE <<>>)
             \o EscapeValue(t[order[k]])
             \o (IF k # Len(order) THEN <<SEMI>> ELSE <<>>)

\* src/unnamed/part_000
TagsBytes(t, order) == Flatten([k \in 1..Len(order) |-> TagPair(t, order, k)])

\* src/unnamed/part_000
PrefixBytes(x) ==
    IF x.Name # <<>> \/ x.User # <<>> \/ x.Host # <<>>
    THEN x.Name \o (IF x.User # <<>> THEN <<BANG>> \o x.User ELSE <<>>)
                \o (IF x.Host # <<>> THEN <<AT>> \o x.Host ELSE <<>>)
    ELSE <<>>

\* i == len(m.Params)-1 && (strings.ContainsAny(param, " :") || len(param) == 0)
mutNeedsColonAnyPosition(params, k) == Contains(params[k], {SP, COLON}) \/ Len(params[k]) = 0

mutNeedsColonSpaceOnly(params, k) ==
    k = Len(params) /\ (Contains(params[k], {SP}) \/ Len(params[k]) = 0)

NeedsColon(params, k) ==
    k = Len(params) /\ (Contains(params[k], {SP, COLON}) \/ Len(params[k]) = 0)

\* for i, param := range m.Params { ... }
ParamsBytes(params) ==
    Flatten([k \in 1..Len(params) |->
                <<SP>> \o (IF NeedsColon(params, k) THEN <<COLON>> ELSE <<>>) \o params[k]])

\* src/unnamed/part_000: Message.Bytes ends the line with CR LF.
MessageBytes(m, order) ==
    LET t == TagsBytes(m.Tags, order)
        x == PrefixBytes(m.Prefix)
    IN (IF Len(t) # 0 THEN <<AT>> \o t \o <<SP>> ELSE <<>>)
       \o (IF Len(x) # 0 THEN <<COLON>> \o x \o <<SP>> ELSE <<>>)
       \o m.Command
       \o ParamsBytes(m.Params)
       \o <<CR, LF>>

\* src/unnamed/part_000: return string(m.Bytes())
MessageString(m, order) == MessageBytes(m, order)

\* src/irc.go: Message.String writes the pairs with the loop of Tags.Bytes,
\* inline, and writes no terminator.
IrcMessageString(m, order) ==
    (IF Cardinality(DOMAIN m.Tags) # 0
     THEN <<AT>> \o TagsBytes(m.Tags, order) \o <<SP>>
     ELSE <<>>)
    \o (IF m.Prefix.Name # <<>> \/ m.Prefix.User # <<>> \/ m.Prefix.Host # <<>>
        THEN <<COLON>> \o m.Prefix.Name
             \o (IF m.Prefix.User # <<>> THEN <<BANG>> \o m.Prefix.User ELSE <<>>)
             \o (IF m.Prefix.Host # <<>> THEN <<AT>> \o m.Prefix.Host ELSE <<>>)
             \o <<SP>>
        ELSE <<>>)
    \o m.Command
    \o ParamsBytes(m.Params)

(***************************************************************************)
(* The callers of the codec.                                               *)
(*                                                                         *)
(* The codec is a library of pure functions; its state is the state of a   *)
(* caller, as in TestSplit and TestJoin: a byte buffer or a Message, and   *)
(* what the calls made so far returned.                                    *)
(***************************************************************************)
VARIABLES
    buf,    \* the caller's input buffer
    msg,    \* the Message the caller holds: parsed from buf, or constructed
    n,      \* the byte count the parser returned
    out,    \* what the serializer returned
    via,    \* the serializer that wrote out
    msg2,   \* the Message parsed from out
    n2,     \* the byte count of that second parse
    pc,     \* the last call that returned ("input", "message": none yet)
    scan,   \* the locals of a parseTags call in progress: st, key, value
    calls,  \* how many times a caller looping over buf has called Parse
    gor     \* the goroutines of a parallel test: each one's own locals

vars == <<buf, msg, n, out, via, msg2, n2, pc, scan, calls, gor>>

\* The input families.
LineBytes == {AT, COLON, BANG, EQUALS, SP, CR, LF, LowerA}

TagBytes == {SEMI, EQUALS, SP, BACKSLASH, CR, LowerA, LowerS}

PrefixBodyBytes == {BANG, AT, COLON, SP, CR, LF, LowerA}

ParamBytes == {SP, COLON, CR, LF, LowerA, LowerB}

ValueBytes == {SEMI, SP, BACKSLASH, CR, LF, EQUALS, COLON, LowerA, LowerS}

ArgBytes == {SP, COLON, LowerA}

\* var key, value strings.Builder; st := stKey
NoScan == [st |-> stKey, key |-> <<>>, value |-> <<>>]

InitCommon ==
    /\ n = 0
    /\ out = <<>>
    /\ via = "none"
    /\ msg2 = NoMessage
    /\ n2 = 0
    /\ scan = NoScan
    /\ calls = 0
    /\ gor = <<>>

InitBuffer(S) ==
    /\ buf \in S
    /\ msg = NoMessage
    /\ pc = "input"
    /\ InitCommon

\* Whole lines.
Init == InitBuffer(BSeq(LineBytes, MaxLineLen))

\* Tag blocks: '@' and a body.
InitTags == InitBuffer({<<AT>> \o b : b \in BSeq(TagBytes, MaxTagLen)})

\* Prefixes: ':' and a body.
InitPrefix == InitBuffer({<<COLON>> \o b : b \in BSeq(PrefixBodyBytes, MaxPrefixLen)})

\* Parameter lists.
InitParams == InitBuffer(BSeq(ParamBytes, MaxParamLen))

\* Messages constructed by the caller, as in joinTests: tag sets of one or two
\* keys, the four shapes of a prefix, parameter lists.
TagSets(values) ==
    {NoTags}
    \cup {(<<LowerA>> :> v) : v \in values}
    \cup {(<<LowerA>> :> v) @@ (<<LowerB>> :> w) : v \in values, w \in {<<>>, <<LowerB>>}}

Prefixes ==
    {NoPrefix,
     [Name |-> <<LowerA>>, User |-> <<>>, Host |-> <<>>],
     [Name |-> <<LowerA>>, User |-> <<LowerB>>, Host |-> <<LowerA>>],
     [Name |-> <<>>, User |-> <<>>, Host |-> <<LowerB>>]}

Messages(tagSets, paramLists) ==
    {[Tags |-> t, Prefix |-> NoPrefix, Command |-> <<UpperA>>, Params |-> <<>>] :
        t \in tagSets}
    \cup {[Tags |-> NoTags, Prefix |-> NoPrefix, Command |-> <<UpperA>>, Params |-> a] :
            a \in paramLists}
    \cup {[Tags |-> t, Prefix |-> x, Command |-> <<UpperA>>, Params |-> a] :
            t \in {NoTags, (<<LowerA>> :> <<>>)}, x \in Prefixes,
            a \in {<<>>, << <<LowerA>> >>, << <<>> >>}}

InitJoin ==
    /\ buf = <<>>
    /\ msg \in Messages(TagSets(BSeq(ValueBytes, MaxValueLen)),
                        BSeq(BSeq(ArgBytes, MaxArgLen), MaxParams))
    /\ pc = "message"
    /\ InitCommon

(***************************************************************************)
(* The calls.                                                              *)
(***************************************************************************)
\* parsed, n := Parse(input), src/unnamed/part_000
CallParse ==
    /\ pc = "input"
    /\ LET r == Parse(buf) IN msg' = r.message /\ n' = r.n
    /\ pc' = "Parse"
    /\ UNCHANGED <<buf, out, via, msg2, n2, scan, calls, gor>>

\* parsed, n := Parse(input), src/irc.go: the call returns or panics.
CallIrcParse ==
    /\ pc = "input"
    /\ LET r == IrcParse(buf)
       IN /\ msg' = r.message
          /\ n' = r.n
          /\ pc' = IF r.panic THEN "panic" ELSE "IrcParse"
    /\ UNCHANGED <<buf, out, via, msg2, n2, scan, calls, gor>>

CallParseTags ==
    /\ pc = "input"
    /\ LET r == parseTags(buf) IN msg' = [msg EXCEPT !.Tags = r.tags] /\ n' = r.n
    /\ pc' = "parseTags"
    /\ UNCHANGED <<buf, out, via, msg2, n2, scan, calls, gor>>

CallParsePrefix ==
    /\ pc = "input"
    /\ LET r == parsePrefix(buf) IN msg' = [msg EXCEPT !.Prefix = r.prefix] /\ n' = r.n
    /\ pc' = "parsePrefix"
    /\ UNCHANGED <<buf, out, via, msg2, n2, scan, calls, gor>>

CallIrcParsePrefix ==
    /\ pc = "input"
    /\ LET r == IrcParsePrefix(buf)
       IN /\ msg' = [msg EXCEPT !.Prefix = r.prefix]
          /\ n' = r.n
          /\ pc' = IF r.panic THEN "panic" ELSE "IrcParsePrefix"
    /\ UNCHANGED <<buf, out, via, msg2, n2, scan, calls, gor>>

CallParseParams ==
    /\ pc = "input"
    /\ LET r == parseParams(buf) IN msg' = [msg EXCEPT !.Params = r.params] /\ n' = r.n
    /\ pc' = "parseParams"
    /\ UNCHANGED <<buf, out, via, msg2, n2, scan, calls, gor>>

\* The serializers run on the Message the caller holds.
Held == pc \in {"Parse", "message"}

\* m.Bytes(), src/unnamed/part_000
CallBytes ==
    /\ Held
    /\ \E order \in Perms(DOMAIN msg.Tags) : out' = MessageBytes(msg, order)
    /\ via' = "Bytes"
    /\ pc' = "render"
    /\ UNCHANGED <<buf, msg, n, msg2, n2, scan, calls, gor>>

\* m.String(), src/unnamed/part_000
CallString ==
    /\ Held
    /\ \E order \in Perms(DOMAIN msg.Tags) : out' = MessageString(msg, order)
    /\ via' = "String"
    /\ pc' = "render"
    /\ UNCHANGED <<buf, msg, n, msg2, n2, scan, calls, gor>>

\* m.String(), src/irc.go
CallIrcString ==
    /\ Held
    /\ \E order \in Perms(DOMAIN msg.Tags) : out' = IrcMessageString(msg, order)
    /\ via' = "IrcString"
    /\ pc' = "render"
    /\ UNCHANGED <<buf, msg, n, msg2, n2, scan, calls, gor>>

\* Parse([]byte(rendered)), src/unnamed/part_000
CallReparse ==
    /\ pc = "render"
    /\ LET r == Parse(out) IN msg2' = r.message /\ n2' = r.n
    /\ pc' = "Reparse"
    /\ UNCHANGED <<buf, msg, n, out, via, scan, calls, gor>>

Next == CallParse \/ CallIrcParse \/ CallBytes \/ CallIrcString \/ CallReparse

Spec == Init /\ [][Next]_vars

NextTags == CallParseTags

SpecTags == InitTags /\ [][NextTags]_vars

NextPrefix == CallParsePrefix \/ CallIrcParsePrefix

SpecPrefix == InitPrefix /\ [][NextPrefix]_vars

NextParams == CallParseParams

SpecParams == InitParams /\ [][NextParams]_vars

NextJoin == CallBytes \/ CallString \/ CallIrcString \/ CallReparse

SpecJoin == InitJoin /\ [][NextJoin]_vars

(***************************************************************************)
(* Vocabulary of the properties.                                           *)
(***************************************************************************)
EOL == {CR, LF}

\* The first position of p holding a byte of S, or Len(p) + 1.
FirstIn(p, S) ==
    IF Contains(p, S)
    THEN CHOOSE k \in 1..Len(p) : p[k] \in S /\ \A j \in 1..(k - 1) : p[j] \notin S
    ELSE Len(p) + 1

\* p up to, not including, its first byte of S.
Before(p, S) == Take(p, FirstIn(p, S) - 1)

\* A ':' at position k of a parameter list that opens a token: the first
\* byte, or the byte after a space.
OpensToken(p, k) == p[k] = COLON /\ (k = 1 \/ p[k - 1] = SP)

\* The token loop of the params scanner is still running when it reads
\* position k: no line end and no token-opening ':' comes before it.
InTokenLoop(p, k) ==
    /\ ~Contains(Take(p, k - 1), EOL)
    /\ \A j \in 1..(k - 1) : ~OpensToken(p, j)

(***************************************************************************)
(* C1.  Parse is total: on every byte sequence the call returns a message  *)
(* and a count, and no index reaches past the end of the buffer.  Stated   *)
(* of both snapshots: no call of Parse ends in a run-time panic.           *)
(***************************************************************************)
C1_ParseIsTotal == pc # "panic"

\* What src/unnamed/part_000 does on the same buffers: it returns, with a
\* count inside the buffer.
C1_GuardedParseReturns == pc = "Parse" => n \in 0..Len(buf)

(***************************************************************************)
(* C2.  A missing terminator is tolerated: for a buffer x with no CR and   *)
(* no LF, Parse(x) and Parse(x CR LF) return the same message, and consume *)
(* Len(x) and Len(x) + 2 bytes.  Stated of every call of Parse that        *)
(* returns, in both snapshots.                                             *)
(***************************************************************************)
C2_MissingTerminator ==
    /\ (pc = "Parse" /\ ~Contains(buf, EOL)) =>
          LET r == Parse(buf \o <<CR, LF>>)
          IN r.message = msg /\ n = Len(buf) /\ r.n = Len(buf) + 2
    /\ (pc = "IrcParse" /\ ~Contains(buf, EOL)) =>
          LET r == IrcParse(buf \o <<CR, LF>>)
          IN ~r.panic /\ r.message = msg /\ n = Len(buf) /\ r.n = Len(buf) + 2

\* The same of src/unnamed/part_000 alone.
C2_GuardedMissingTerminator ==
    (pc = "Parse" /\ ~Contains(buf, EOL)) =>
        LET r == Parse(buf \o <<CR, LF>>)
        IN r.message = msg /\ n = Len(buf) /\ r.n = Len(buf) + 2

(***************************************************************************)
(* C3.  Trailing parameter: a ':' the params scanner reads at a token      *)
(* boundary switches it to raw mode; the bytes after it, up to the first   *)
(* CR or LF or the end of the input, are the last parameter, spaces and    *)
(* colons included (the empty string when nothing follows), after the      *)
(* parameters of the tokens before the ':'.                                *)
(***************************************************************************)
C3_TrailingParameter ==
    pc = "parseParams" =>
        \A k \in 1..Len(buf) :
            (OpensToken(buf, k) /\ InTokenLoop(buf, k)) =>
                LET raw == Before(Drop(buf, k), EOL)
                IN /\ msg.Params = Append(parseParams(Take(buf, k - 1)).params, raw)
                   /\ n = k + Len(raw)

C3_Witness ==
    /\ pc = "parseParams"
    /\ \E k \in 2..Len(buf) :
          /\ OpensToken(buf, k) /\ InTokenLoop(buf, k)
          /\ Len(msg.Params) = 2
          /\ Contains(msg.Params[2], {SP})
          /\ Contains(msg.Params[2], {COLON})

(***************************************************************************)
(* C4.  A mid-token colon is dropped: a ':' read by the token loop after   *)
(* the current parameter has a byte is not appended, does not end the      *)
(* parameter and does not start the trailing parameter.  The scan gives    *)
(* what it gives on the input without that ':', one byte further on.       *)
(***************************************************************************)
C4_MidTokenColonDropped ==
    pc = "parseParams" =>
        \A k \in 2..Len(buf) :
            (buf[k] = COLON /\ buf[k - 1] # SP /\ InTokenLoop(buf, k)) =>
                LET r == parseParams(Take(buf, k - 1) \o Drop(buf, k))
                IN msg.Params = r.params /\ n = r.n + 1

C4_Witness ==
    /\ pc = "parseParams"
    /\ buf = <<LowerA, COLON, LowerB>>
    /\ msg.Params = << <<LowerA, LowerB>> >>

(***************************************************************************)
(* C5.  Duplicate tag keys: the last occurrence wins.  Whatever the tag    *)
(* block holds before a ';' and after it, the decoded set is the set       *)
(* decoded from the part after the ';', completed by the pairs decoded     *)
(* from the part before it whose keys do not occur again; so a key holds   *)
(* the value of its last occurrence, and the other keys keep theirs.       *)
(***************************************************************************)
C5_LastOccurrenceWins ==
    pc = "parseTags" =>
        \A k \in 2..Len(buf) :
            (buf[k] = SEMI /\ ~Contains(Take(buf, k - 1), {SP, CR, LF})) =>
                LET before == parseTags(Take(buf, k - 1)).tags
                    after == parseTags(<<AT>> \o Drop(buf, k)).tags
                IN /\ DOMAIN msg.Tags = DOMAIN before \cup DOMAIN after
                   /\ \A key \in DOMAIN msg.Tags :
                         msg.Tags[key] = IF key \in DOMAIN after THEN after[key]
                                         ELSE before[key]

C5_Witness ==
    /\ pc = "parseTags"
    /\ buf = <<AT, LowerA, EQUALS, LowerS, SEMI, LowerA>>
    /\ DOMAIN msg.Tags = {<<LowerA>>}
    /\ msg.Tags[<<LowerA>>] = <<>>

(***************************************************************************)
(* C6.  Tag escaping round-trips: a tag value written by the serializer    *)
(* and read back by the tag decoder is the original value, for every value *)
(* of ordinary bytes and ';', space, '\', CR, LF.                          *)
(***************************************************************************)
C6_TagValueRoundTrip ==
    (pc = "Reparse" /\ msg.Tags # NoTags) => msg2.Tags = msg.Tags

\* The round trip of the values that hold no '='.
C6_RoundTripWithoutEquals ==
    (/\ pc = "Reparse"
     /\ msg.Tags # NoTags
     /\ \A key \in DOMAIN msg.Tags : ~Contains(msg.Tags[key], {EQUALS}))
        => msg2.Tags = msg.Tags

(***************************************************************************)
(* C7.  Parse/render round trip: for a line with no tag block and no       *)
(* prefix, parsing the line, rendering the message and parsing the         *)
(* rendered text gives the command and the parameter list of the first     *)
(* parse.                                                                  *)
(***************************************************************************)
Plain(p) == p = <<>> \/ p[1] \notin {AT, COLON}

C7_ParseRenderRoundTrip ==
    (pc = "Reparse" /\ Plain(buf)) =>
        msg2.Command = msg.Command /\ msg2.Params = msg.Params

C7_Witness ==
    /\ pc = "Reparse"
    /\ Plain(buf)
    /\ via = "Bytes"
    /\ msg.Command = <<UpperA>>
    /\ Len(msg.Params) = 1
    /\ Contains(msg.Params[1], {COLON})
    /\ msg2.Params = msg.Params

(***************************************************************************)
(* C8.  The serializer's trailing-colon rule: every parameter is written   *)
(* after one space, and a ':' is written before a parameter exactly when   *)
(* it is the last one and is empty or holds a space or a colon.            *)
(***************************************************************************)
\* What the rule says parameter k of ps is written as.
C8_Written(ps, k) ==
    <<SP>>
    \o (IF /\ k = Len(ps)
           /\ \/ ps[k] = <<>>
              \/ \E j \in 1..Len(ps[k]) : ps[k][j] = SP \/ ps[k][j] = COLON
        THEN <<COLON>>
        ELSE <<>>)
    \o ps[k]

\* The text before the parameters: the line of the same message without them.
C8_Head(order) == IrcMessageString([msg EXCEPT !.Params = <<>>], order)

C8_End == IF via = "IrcString" THEN <<>> ELSE <<CR, LF>>

C8_TrailingColonRule ==
    pc = "render" =>
        \E order \in Perms(DOMAIN msg.Tags) :
            out = C8_Head(order)
                  \o Flatten([k \in 1..Len(msg.Params) |-> C8_Written(msg.Params, k)])
                  \o C8_End

C8_Witness ==
    /\ pc = "render"
    /\ msg.Params = << <<COLON>>, <<SP>> >>
    /\ msg.Tags = NoTags
    /\ msg.Prefix = NoPrefix
    /\ via = "IrcString"
    /\ out = <<UpperA, SP, COLON, SP, COLON, SP>>

(***************************************************************************)
(* C9.  Message.String() renders the line without a terminator: its        *)
(* output is the optional tag block, the optional prefix block, the        *)
(* command and the parameters, and nothing after them.  Stated of          *)
(* String() in both snapshots.                                             *)
(***************************************************************************)
C9_Line(m, order) ==
    (IF m.Tags # NoTags THEN <<AT>> \o TagsBytes(m.Tags, order) \o <<SP>> ELSE <<>>)
    \o (IF m.Prefix # NoPrefix THEN <<COLON>> \o PrefixBytes(m.Prefix) \o <<SP>> ELSE <<>>)
    \o m.Command
    \o Flatten([k \in 1..Len(m.Params) |-> C8_Written(m.Params, k)])

C9_StringHasNoTerminator ==
    (pc = "render" /\ via \in {"String", "IrcString"}) =>
        \E order \in Perms(DOMAIN msg.Tags) : out = C9_Line(msg, order)

\* The same of String() of src/irc.go alone.
C9_IrcStringHasNoTerminator ==
    (pc = "render" /\ via = "IrcString") =>
        \E order \in Perms(DOMAIN msg.Tags) : out = C9_Line(msg, order)

(***************************************************************************)
(* C10.  Prefix splitting: for a prefix ':' N ['!' U] ['@' H] ended by a   *)
(* space, CR, LF or the end of the input, the prefix parser returns        *)
(* Name = N, User = U and Host = H, each possibly empty.                   *)
(***************************************************************************)
\* The segment: the bytes after ':' up to the space, CR, LF or end.
C10_Segment == Before(Drop(buf, 1), {SP, CR, LF})

\* N runs to the first '!' or '@', U from a '!' there to the first '@',
\* H from the first '@' to the end of the segment.
C10_Name == Before(C10_Segment, {BANG, AT})

C10_AfterName == Drop(C10_Segment, Len(C10_Name))

C10_User ==
    IF C10_AfterName # <<>> /\ Head(C10_AfterName) = BANG
    THEN Before(Tail(C10_AfterName), {AT})
    ELSE <<>>

C10_Host ==
    IF Contains(C10_Segment, {AT})
    THEN Drop(C10_Segment, FirstIn(C10_Segment, {AT}))
    ELSE <<>>

C10_PrefixSplitting ==
    pc = "parsePrefix" =>
        /\ msg.Prefix.Name = C10_Name
        /\ msg.Prefix.User = C10_User
        /\ msg.Prefix.Host = C10_Host

C10_Witness ==
    /\ pc = "parsePrefix"
    /\ buf = <<COLON, AT, LowerA>>
    /\ msg.Prefix = [Name |-> <<>>, User |-> <<>>, Host |-> <<LowerA>>]

(***************************************************************************)
(* The command parser called alone.                                        *)
(***************************************************************************)
\* The bytes the loop tells apart: the three stop bytes, the two ends of
\* 'a'..'z', the bytes just outside them, and an upper-case letter.
CommandBytes == {SP, CR, LF, LowerA - 1, LowerA, LowerZ, LowerZ + 1, UpperA}

InitCommand == InitBuffer(BSeq(CommandBytes, MaxCommandLen))

CallParseCommand ==
    /\ pc = "input"
    /\ LET r == parseCommand(buf) IN msg' = [msg EXCEPT !.Command = r.command] /\ n' = r.n
    /\ pc' = "parseCommand"
    /\ UNCHANGED <<buf, out, via, msg2, n2, scan, calls, gor>>

NextCommand == CallParseCommand

SpecCommand == InitCommand /\ [][NextCommand]_vars

\* The ASCII lower-case letters.
Lower == LowerA..LowerZ

\* C11: the command is the token before the first space, CR or LF of the
\* input (or its end), byte for byte, with each a-z replaced by the A-Z 32
\* below it and every other byte as it is; so it has the token's length and
\* holds no space, CR, LF or lower-case letter.
C11_CommandNormalization ==
    pc = "parseCommand" =>
        LET token == Before(buf, {SP, CR, LF}) IN
        /\ Len(msg.Command) = Len(token)
        /\ \A k \in 1..Len(token) :
              msg.Command[k] = IF token[k] \in Lower THEN token[k] - 32 ELSE token[k]
        /\ ~Contains(msg.Command, {SP, CR, LF} \cup Lower)

\* "az`{" is parsed: both ends of the range are raised, both neighbours kept.
C11_Witness ==
    /\ pc = "parseCommand"
    /\ buf = <<LowerA, LowerZ, LowerA - 1, LowerZ + 1>>
    /\ msg.Command = <<UpperA, 90, LowerA - 1, LowerZ + 1>>

(***************************************************************************)
(* Parallel subtests.                                                      *)
(*                                                                         *)
(* TestSplit and TestJoin run every subtest as a goroutine of its own      *)
(* (t.Parallel()).  A subtest of TestSplit copies its fixture into a fresh *)
(* buffer and calls Parse on it; a subtest of TestJoin calls String on its *)
(* fixture.  The package declares no variable besides the fixtures: every  *)
(* variable a call reads or writes (i, j, message, buf) lives in the frame *)
(* of that call.  A step of a goroutine is one statement of Parse or of    *)
(* Message.Bytes.                                                          *)
(***************************************************************************)
\* Lines a subtest of TestSplit parses.
ParallelLines ==
    {<<>>,
     <<LowerA>>,
     <<AT, LowerA, SP, LowerA>>,
     <<COLON, LowerA, SP, LowerA, SP, COLON, SP>>,
     <<LowerA, SP, LowerA, CR, LF>>,
     <<CR, LF, LowerA>>}

\* Messages a subtest of TestJoin renders.
ParallelMessages ==
    {[Tags |-> NoTags, Prefix |-> NoPrefix, Command |-> <<UpperA>>, Params |-> <<>>],
     [Tags |-> (<<LowerA>> :> <<SP>>) @@ (<<LowerB>> :> <<>>),
      Prefix |-> [Name |-> <<LowerA>>, User |-> <<>>, Host |-> <<LowerB>>],
      Command |-> <<UpperA>>, Params |-> << <<LowerA>>, <<>> >>]}

\* The frame of a subtest of TestSplit about to call Parse(input).
ParseFrame(text) ==
    [kind |-> "Parse", text |-> text, input |-> text, i |-> 0, message |-> NoMessage,
     held |-> NoMessage, order |-> <<>>, out |-> <<>>, pc |-> "tags"]

\* The frame of a subtest of TestJoin about to call test.Input.String().
StringFrame(m, order) ==
    [kind |-> "String", text |-> <<>>, input |-> <<>>, i |-> 0, message |-> m,
     held |-> m, order |-> order, out |-> <<>>, pc |-> "tags"]

Frames ==
    {ParseFrame(text) : text \in ParallelLines}
    \cup UNION {{StringFrame(m, order) : order \in Perms(DOMAIN m.Tags)} :
                    m \in ParallelMessages}

\* i, j := 0, 0: the cursor of a call of Parse is a variable of its frame.
mutCursorShared(frames, g) == frames[1].i

Cursor(frames, g) == frames[g].i

\* var buf bytes.Buffer: so is the buffer a call of Bytes writes to.
Buffer(frames, g) == frames[g].out

\* One statement of Parse, run on the frame f.
ParseStep(f) ==
    LET rest == Drop(f.input, f.i) IN
    CASE f.pc = "tags" ->
            LET r == parseTags(rest)
            IN [f EXCEPT !.message.Tags = r.tags, !.i = f.i + r.n, !.pc = "prefix"]
      [] f.pc = "prefix" ->
            LET r == parsePrefix(rest)
            IN [f EXCEPT !.message.Prefix = r.prefix, !.i = f.i + r.n, !.pc = "command"]
      [] f.pc = "command" ->
            LET r == parseCommand(rest)
            IN [f EXCEPT !.message.Command = r.command, !.i = f.i + r.n, !.pc = "params"]
      [] f.pc = "params" ->
            LET r == parseParams(rest)
            IN [f EXCEPT !.message.Params = r.params, !.i = f.i + r.n,
                         !.pc = "terminator"]
      [] f.pc = "terminator" ->
            [f EXCEPT !.i = f.i + Terminator(f.input, f.i), !.pc = "done"]

\* One statement of Message.Bytes, run on the frame f.
BytesStep(f) ==
    CASE f.pc = "tags" ->
            LET t == TagsBytes(f.message.Tags, f.order)
            IN [f EXCEPT !.out = IF Len(t) # 0 THEN f.out \o <<AT>> \o t \o <<SP>> ELSE f.out,
                         !.pc = "prefix"]
      [] f.pc = "prefix" ->
            LET x == PrefixBytes(f.message.Prefix)
            IN [f EXCEPT !.out = IF Len(x) # 0 THEN f.out \o <<COLON>> \o x \o <<SP>>
                                 ELSE f.out,
                         !.pc = "command"]
      [] f.pc = "command" -> [f EXCEPT !.out = f.out \o f.message.Command, !.pc = "params"]
      [] f.pc = "params" ->
            [f EXCEPT !.out = f.out \o ParamsBytes(f.message.Params), !.pc = "terminator"]
      [] f.pc = "terminator" -> [f EXCEPT !.out = f.out \o <<CR, LF>>, !.pc = "done"]

InitParallel ==
    /\ buf = <<>>
    /\ msg = NoMessage
    /\ pc = "parallel"
    /\ n = 0
    /\ out = <<>>
    /\ via = "none"
    /\ msg2 = NoMessage
    /\ n2 = 0
    /\ scan = NoScan
    /\ calls = 0
    /\ gor \in [1..Goroutines -> Frames]

\* Goroutine g runs the next statement of its call of Parse.
StepParse(g) ==
    /\ gor[g].kind = "Parse"
    /\ gor[g].pc # "done"
    /\ gor' = [gor EXCEPT ![g] = ParseStep([gor[g] EXCEPT !.i = Cursor(gor, g)])]
    /\ UNCHANGED <<buf, msg, n, out, via, msg2, n2, pc, scan, calls>>

\* Goroutine g runs the next statement of its call of String.
StepString(g) ==
    /\ gor[g].kind = "String"
    /\ gor[g].pc # "done"
    /\ gor' = [gor EXCEPT ![g] = BytesStep([gor[g] EXCEPT !.out = Buffer(gor, g)])]
    /\ UNCHANGED <<buf, msg, n, out, via, msg2, n2, pc, scan, calls>>

NextParallel ==
    \/ \E g \in DOMAIN gor : StepParse(g)
    \/ \E g \in DOMAIN gor : StepString(g)

SpecParallel == InitParallel /\ [][NextParallel]_vars

\* C12: however the statements of concurrent calls of Parse and String on
\* inputs of their own interleave, a call that has returned holds what the
\* same call gives when it runs alone; the buffer a call of Parse was handed
\* holds the bytes it held before the call, at every moment; and a step of
\* one call leaves the frame of every other call as it was.
C12_Stateless ==
    /\ [](\A g \in DOMAIN gor :
            /\ gor[g].input = gor[g].text
            /\ (gor[g].kind = "Parse" /\ gor[g].pc = "done") =>
                  /\ gor[g].message = Parse(gor[g].text).message
                  /\ gor[g].i = Parse(gor[g].text).n
            /\ (gor[g].kind = "String" /\ gor[g].pc = "done") =>
                  gor[g].out = MessageString(gor[g].held, gor[g].order))
    /\ [][\E g \in DOMAIN gor : \A h \in DOMAIN gor \ {g} : gor'[h] = gor[h]]_vars

\* Two calls on different inputs have both returned, one of Parse and one
\* of String.
C12_Witness ==
    /\ pc = "parallel"
    /\ \A g \in DOMAIN gor : gor[g].pc = "done"
    /\ \E g, h \in DOMAIN gor :
          /\ gor[g].kind = "Parse" /\ gor[g].i = Len(gor[g].text) /\ gor[g].i > 0
          /\ gor[h].kind = "String" /\ Len(gor[h].out) > 0

\* The bytes of p the params parser is handed by Parse: what follows the
\* tag block, the prefix and the command.
ParamsRegion(p) ==
    LET t == parseTags(p)
        x == parsePrefix(Drop(p, t.n))
        c == parseCommand(Drop(p, t.n + x.n))
    IN Drop(p, t.n + x.n + c.n)

\* C13: in the parameter list Parse returns, no element holds CR or LF;
\* every element but the last is non-empty and holds no space; the list
\* has at most one element for each run of non-space bytes of the
\* parameter part before the line end; and a last element that is empty or
\* holds a space comes from a ':' that opens a token of the parameter part
\* before any line end.
C13_ParamsInvariant ==
    pc = "Parse" =>
        LET region == Before(ParamsRegion(buf), EOL)
            last == Len(msg.Params)
            starts == {k \in 1..Len(region) :
                          region[k] # SP /\ (k = 1 \/ region[k - 1] = SP)}
        IN /\ \A k \in 1..last : ~Contains(msg.Params[k], EOL)
           /\ \A k \in 1..(last - 1) :
                 msg.Params[k] # <<>> /\ ~Contains(msg.Params[k], {SP})
           /\ last <= Cardinality(starts)
           /\ (last > 0 /\ (msg.Params[last] = <<>> \/ Contains(msg.Params[last], {SP}))) =>
                 \E k \in 1..Len(region) : OpensToken(region, k) /\ InTokenLoop(region, k)

\* " a  :" is parsed: two spaces in a row give no element, and the last
\* element is the empty one the ':' introduces.
C13_Witness ==
    /\ pc = "Parse"
    /\ buf = <<SP, LowerA, SP, SP, COLON>>
    /\ msg.Params = << <<LowerA>>, <<>> >>

(***************************************************************************)
(* The tag decoder, byte by byte.                                          *)
(*                                                                         *)
(* One step is one pass of the loop of parseTags: n is the cursor i, scan  *)
(* holds st, key and value, msg.Tags the map.                              *)
(***************************************************************************)
\* The bytes the decoder tells apart in a value, and an ordinary one.
EscapeBytes == {SEMI, EQUALS, SP, BACKSLASH, CR, LF, COLON, LowerA, LowerS, LowerR, LowerN}

\* Tag blocks "@a=" and a value part; the empty buffer and a buffer with no
\* tag block.
InitScan ==
    InitBuffer({<<AT, LowerA, EQUALS>> \o b : b \in BSeq(EscapeBytes, MaxEscapeLen)}
               \cup {<<>>, <<LowerA>>})

\* if len(p) == 0 || p[i] != '@' { return tags, i }; i++; st := stKey
BeginScan ==
    /\ pc = "input"
    /\ IF Len(buf) = 0 \/ buf[1] # AT
       THEN n' = 0 /\ pc' = "scanned"
       ELSE n' = 1 /\ pc' = "scan"
    /\ scan' = NoScan
    /\ UNCHANGED <<buf, msg, out, via, msg2, n2, calls, gor>>

\* One pass of the loop: i++ and the switch over the byte read.
ScanByte ==
    /\ pc = "scan"
    /\ n < Len(buf)
    /\ LET b == buf[n + 1]
           committed == [msg EXCEPT !.Tags = Commit(msg.Tags, scan.key, scan.value)]
       IN CASE b = SP -> msg' = committed /\ n' = n + 1 /\ pc' = "scanned" /\ scan' = scan
            [] b \in {CR, LF} -> msg' = committed /\ n' = n /\ pc' = "scanned" /\ scan' = scan
            [] b = SEMI -> msg' = committed /\ n' = n + 1 /\ pc' = "scan" /\ scan' = NoScan
            [] b = EQUALS ->
                 msg' = msg /\ n' = n + 1 /\ pc' = "scan" /\ scan' = [scan EXCEPT !.st = stValue]
            [] OTHER ->
                 /\ msg' = msg /\ n' = n + 1 /\ pc' = "scan"
                 /\ scan' = TagByte(scan.st, scan.key, scan.value, b)
    /\ UNCHANGED <<buf, out, via, msg2, n2, calls, gor>>

\* The loop ran to the end of the buffer: the pair in progress is committed.
EndScan ==
    /\ pc = "scan"
    /\ n >= Len(buf)
    /\ msg' = [msg EXCEPT !.Tags = Commit(msg.Tags, scan.key, scan.value)]
    /\ pc' = "scanned"
    /\ UNCHANGED <<buf, n, out, via, msg2, n2, scan, calls, gor>>

NextScan == BeginScan \/ ScanByte \/ EndScan

SpecScan == InitScan /\ [][NextScan]_vars

\* The decoder is in the Escape state and a byte follows.
InEscape == pc = "scan" /\ scan.st = stEscape /\ n < Len(buf)

\* The byte an escape stands for.
EscapeOf(b) ==
    CASE b = COLON -> SEMI
      [] b = LowerS -> SP
      [] b = BACKSLASH -> BACKSLASH
      [] b = LowerR -> CR
      [] b = LowerN -> LF
      [] OTHER -> b

\* C14, as claimed: in the Escape state the next byte, whatever it is, is
\* appended to the value (';' for ':', space for 's', '\' for '\', CR for
\* 'r', LF for 'n', itself otherwise) and the decoder is then in the Value
\* state.
C14_EscapeAppendsEveryByte ==
    [][InEscape =>
          /\ scan'.value = Append(scan.value, EscapeOf(buf[n + 1]))
          /\ scan'.st = stValue]_vars

\* C14, amended: that holds of every next byte but space, CR, LF, ';' and
\* '='.  After a '\', a space, CR or LF still ends the tag block and a ';'
\* still ends the pair, the value being committed without the '\' and
\* without that byte; and a '=' is dropped, leaving the value as it is and
\* the decoder in the Value state.
C14_EscapeTransition ==
    [][InEscape =>
          LET b == buf[n + 1]
              stored == IF scan.key # <<>>
                        THEN /\ scan.key \in DOMAIN msg'.Tags
                             /\ msg'.Tags[scan.key] = scan.value
                        ELSE msg'.Tags = msg.Tags
          IN CASE b \in {SP, CR, LF} -> pc' = "scanned" /\ stored
               [] b = SEMI -> pc' = "scan" /\ stored /\ scan' = NoScan
               [] b = EQUALS -> pc' = "scan" /\ scan' = [scan EXCEPT !.st = stValue]
               [] OTHER ->
                    /\ pc' = "scan"
                    /\ scan' = [st |-> stValue, key |-> scan.key,
                                value |-> Append(scan.value, EscapeOf(b))]]_vars

\* "@a=\s" has been read: the value is a space and the state is Value.
C14_Witness ==
    /\ pc = "scan"
    /\ buf = <<AT, LowerA, EQUALS, BACKSLASH, LowerS>>
    /\ n = 5
    /\ scan = [st |-> stValue, key |-> <<LowerA>>, value |-> <<SP>>]

\* The byte-by-byte decoder ends where parseTags ends, with its tag set.
C14_ScanIsParseTags ==
    pc = "scanned" => msg.Tags = parseTags(buf).tags /\ n = parseTags(buf).n

\* The sum of the counts of the four parsers of src/unnamed/part_000, each
\* run on what the ones before it left.
PartsCount(p) ==
    LET t == parseTags(p)
        x == parsePrefix(Drop(p, t.n))
        c == parseCommand(Drop(p, t.n + x.n))
        a == parseParams(Drop(p, t.n + x.n + c.n))
    IN t.n + x.n + c.n + a.n

\* The same sum for src/irc.go, on a buffer on which Parse returns.
IrcPartsCount(p) ==
    LET t == IrcParseTags(p)
        x == IrcParsePrefix(Drop(p, t.n))
        c == parseCommand(Drop(p, t.n + x.n))
        a == parseParams(Drop(p, t.n + x.n + c.n))
    IN t.n + x.n + c.n + a.n

\* At least two bytes follow the first i bytes of p, and they are CR LF.
CRLFAt(p, i) == i + 2 <= Len(p) /\ p[i + 1] = CR /\ p[i + 2] = LF

\* The count n consumes no CR and no LF of p but those of a CR LF pair that
\* are its last two bytes.
OnlyCRLFConsumed(p, k) ==
    Contains(Take(p, k), EOL) =>
        /\ k >= 2
        /\ p[k - 1] = CR /\ p[k] = LF
        /\ ~Contains(Take(p, k - 2), EOL)

\* C15: the count a call of Parse returns is the sum of the counts of the
\* tag, prefix, command and params parsers, plus 2 exactly when at least
\* two bytes remain there and they are CR LF, plus 0 otherwise; so a lone
\* CR, a lone LF, and LF CR are never consumed.  Stated of every call that
\* returns, in both snapshots.
C15_TerminatorConsumption ==
    /\ pc = "Parse" =>
          /\ n = PartsCount(buf) + (IF CRLFAt(buf, PartsCount(buf)) THEN 2 ELSE 0)
          /\ OnlyCRLFConsumed(buf, n)
    /\ pc = "IrcParse" =>
          /\ n = IrcPartsCount(buf) + (IF CRLFAt(buf, IrcPartsCount(buf)) THEN 2 ELSE 0)
          /\ OnlyCRLFConsumed(buf, n)

\* "a" CR LF CR is parsed: the pair is consumed, the lone CR after it is not.
C15_Witness ==
    /\ pc \in {"Parse", "IrcParse"}
    /\ buf = <<LowerA, CR, LF, CR>>
    /\ n = 3

(***************************************************************************)
(* C16.  The parser snapshots are equivalent: on every input, Parse of     *)
(* src/irc.go returns the tags, prefix, command, params and count that     *)
(* Parse of src/unnamed/part_000 returns.                                  *)
(***************************************************************************)
C16_SnapshotsEquivalent ==
    pc \in {"IrcParse", "panic"} =>
        /\ pc = "IrcParse"
        /\ msg = Parse(buf).message
        /\ n = Parse(buf).n

\* Where the two differ: src/irc.go panics, or returns a prefix that lacks
\* the field the buffer ends in; it never differs in anything else.
C16_DifferOnlyAtEndOfPrefix ==
    pc = "IrcParse" =>
        /\ msg.Tags = Parse(buf).message.Tags
        /\ msg.Command = Parse(buf).message.Command
        /\ msg.Params = Parse(buf).message.Params
        /\ n = Parse(buf).n
        /\ msg.Prefix # Parse(buf).message.Prefix =>
              /\ msg.Prefix.Host = <<>>
              /\ Parse(buf).message.Prefix.Host # <<>>
              /\ n = Len(buf)

(***************************************************************************)
(* A caller looping over a buffer of lines.                                *)
(*                                                                         *)
(* TestSplit compares input[n:] with what it expects after one call; a     *)
(* caller with several lines in its buffer calls Parse again on input[n:], *)
(* until nothing is left.  n is the number of bytes consumed so far, msg   *)
(* the message of the last call, calls the number of calls made.           *)
(***************************************************************************)
\* The bytes of a line that the four parsers tell apart, CR and LF aside.
FrameBytes == {AT, COLON, SP, LowerA}

\* The concatenation of the lines, each followed by CR LF.
Framed(lines) == Flatten([k \in 1..Len(lines) |-> lines[k] \o <<CR, LF>>])

\* Buffers of up to MaxLines lines of up to MaxFrameLen bytes.
InitFrame ==
    \E lines \in BSeq(BSeq(FrameBytes, MaxFrameLen), MaxLines) : InitBuffer({Framed(lines)})

\* parsed, n := Parse(input[n:]), while bytes are left; a caller gives up
\* after MaxLines + 1 calls.
CallParseRest ==
    /\ pc \in {"input", "rest"}
    /\ n < Len(buf)
    /\ calls <= MaxLines
    /\ LET r == Parse(Drop(buf, n)) IN msg' = r.message /\ n' = n + r.n
    /\ calls' = calls + 1
    /\ pc' = "rest"
    /\ UNCHANGED <<buf, out, via, msg2, n2, scan, gor>>

NextFrame == CallParseRest

SpecFrame == InitFrame /\ [][NextFrame]_vars

\* The lines of a buffer: the CR/LF-free stretches its CR LF pairs end.
RECURSIVE LinesOf(_)
LinesOf(p) ==
    IF p = <<>> THEN <<>>
    ELSE LET line == Before(p, EOL)
         IN <<line>> \o LinesOf(Drop(p, Len(line) + 2))

\* The bytes of the first j lines with their CR LF.
RECURSIVE BytesOfLines(_, _)
BytesOfLines(lines, j) ==
    IF j = 0 THEN 0 ELSE BytesOfLines(lines, j - 1) + Len(lines[j]) + 2

\* C17: on a buffer of k lines, each CR/LF-free and followed by CR LF, the
\* j-th call of Parse on the unconsumed rest has consumed the first j lines
\* with their CR LF and no more, and returns the message Parse returns on
\* the j-th line alone; the rest is empty after k calls and not before.
C17_LineFraming ==
    pc = "rest" =>
        LET lines == LinesOf(buf) IN
        /\ calls \in 1..Len(lines)
        /\ n = BytesOfLines(lines, calls)
        /\ msg = Parse(lines[calls] \o <<CR, LF>>).message
        /\ msg = Parse(lines[calls]).message
        /\ (n = Len(buf)) <=> (calls = Len(lines))

\* Two lines, the second with a prefix, both consumed in two calls.
C17_Witness ==
    /\ pc = "rest"
    /\ buf = <<LowerA, CR, LF, COLON, LowerA, CR, LF>>
    /\ calls = 2
    /\ n = Len(buf)
    /\ msg.Prefix.Name = <<LowerA>>

\* C18: the count Parse returns lies between 0 and the length of the
\* buffer; on a non-empty buffer it is 0 exactly when the buffer begins
\* with LF, or with a CR that no LF follows at once.
C18_CountBoundsAndProgress ==
    pc = "Parse" =>
        /\ 0 <= n /\ n <= Len(buf)
        /\ buf # <<>> =>
              ((n = 0) <=> \/ buf[1] = LF
                           \/ buf[1] = CR /\ ~(Len(buf) >= 2 /\ buf[2] = LF))

\* CR and an ordinary byte: nothing is consumed.
C18_Witness ==
    /\ pc = "Parse"
    /\ buf = <<CR, LowerA>>
    /\ n = 0

\* C19: every key of the tag set the decoder returns is non-empty and holds
\* none of ';', '=', space, CR, LF, and no value of it holds '=': each '='
\* of the tag block is dropped, in whatever state it is read.  Stated of
\* parseTags of src/unnamed/part_000 and of src/irc.go.
C19_DecodedTagSet ==
    pc = "parseTags" =>
        /\ \A key \in DOMAIN msg.Tags :
              /\ key # <<>>
              /\ ~Contains(key, {SEMI, EQUALS, SP, CR, LF})
              /\ ~Contains(msg.Tags[key], {EQUALS})
        /\ LET irc == IrcParseTags(buf)
           IN ~irc.panic =>
                 \A key \in DOMAIN irc.tags :
                     /\ key # <<>>
                     /\ ~Contains(key, {SEMI, EQUALS, SP, CR, LF})
                     /\ ~Contains(irc.tags[key], {EQUALS})

\* "@a=a=a" is decoded: the second '=' is read in the Value state and is
\* not part of the value.
C19_Witness ==
    /\ pc = "parseTags"
    /\ buf = <<AT, LowerA, EQUALS, LowerA, EQUALS, LowerA>>
    /\ DOMAIN msg.Tags = {<<LowerA>>}
    /\ msg.Tags[<<LowerA>>] = <<LowerA, LowerA>>

(***************************************************************************)
(* Messages at the edge of what the wire syntax can carry: the serializers *)
(* write every field as it is (tag values aside), so a message reads back  *)
(* as itself only if no field holds a byte that ends it on the wire.       *)
(***************************************************************************)
\* Field contents: empty, ordinary, and one of each byte some parser stops at.
EdgeFields == {<<>>, <<LowerA>>, <<COLON>>, <<BANG>>, <<AT>>, <<SP>>, <<CR>>}

EdgeKeys == {<<>>, <<LowerA>>, <<BACKSLASH>>, <<COLON, AT>>, <<SEMI>>, <<EQUALS>>, <<SP>>}

EdgeCommands ==
    {<<>>, <<UpperA>>, <<LowerA>>, <<COLON>>, <<AT>>, <<UpperA, COLON>>, <<UpperA, AT>>,
     <<UpperA, SP>>, <<UpperA, LF>>}

\* One field or group of fields varies at a time, the others being plain.
EdgeTagMessages(values) ==
    {[Tags |-> (k :> v), Prefix |-> NoPrefix, Command |-> <<UpperA>>, Params |-> <<>>] :
        k \in EdgeKeys, v \in values}

EdgeTwoTagMessages ==
    {[Tags |-> (<<LowerA>> :> v) @@ (<<LowerB>> :> w),
      Prefix |-> [Name |-> <<LowerA>>, User |-> <<LowerB>>, Host |-> <<LowerA>>],
      Command |-> <<UpperA>>, Params |-> << <<LowerA>>, <<SP>> >>] :
        v \in {<<>>, <<SEMI, SP>>, <<EQUALS>>}, w \in {<<>>, <<BACKSLASH>>, <<LowerS>>}}

EdgePrefixMessages ==
    {[Tags |-> NoTags, Prefix |-> [Name |-> a, User |-> u, Host |-> h],
      Command |-> <<UpperA>>, Params |-> ps] :
        a \in EdgeFields, u \in EdgeFields, h \in EdgeFields,
        ps \in {<<>>, << <<LowerA>> >>}}

EdgeCommandMessages ==
    {[Tags |-> t, Prefix |-> x, Command |-> c, Params |-> <<>>] :
        t \in {NoTags, (<<LowerA>> :> <<>>)},
        x \in {NoPrefix, [Name |-> <<LowerA>>, User |-> <<>>, Host |-> <<>>]},
        c \in EdgeCommands}

EdgeParamMessages(paramLists) ==
    {[Tags |-> NoTags, Prefix |-> x, Command |-> <<UpperA>>, Params |-> ps] :
        x \in {NoPrefix, [Name |-> <<LowerA>>, User |-> <<>>, Host |-> <<>>]},
        ps \in paramLists}

InitEdge ==
    /\ buf = <<>>
    /\ \/ msg \in EdgeTagMessages(BSeq(ValueBytes, MaxValueLen))
       \/ msg \in EdgeTwoTagMessages
       \/ msg \in EdgePrefixMessages
       \/ msg \in EdgeCommandMessages
       \/ msg \in EdgeParamMessages(BSeq(BSeq(ArgBytes, MaxArgLen), MaxParams))
    /\ pc = "message"
    /\ InitCommon

NextEdge == CallBytes \/ CallString \/ CallIrcString \/ CallReparse

SpecEdge == InitEdge /\ [][NextEdge]_vars

\* The messages the claim is about.
WellFormed(m) ==
    /\ \A key \in DOMAIN m.Tags :
          /\ key # <<>>
          /\ ~Contains(key, {SEMI, EQUALS, SP, CR, LF})
          /\ ~Contains(m.Tags[key], {EQUALS})
    /\ ~Contains(m.Prefix.Name, {BANG, AT, SP, CR, LF})
    /\ ~Contains(m.Prefix.User, {AT, SP, CR, LF})
    /\ ~Contains(m.Prefix.Host, {SP, CR, LF})
    /\ m.Command # <<>>
    /\ ~Contains(m.Command, {SP, CR, LF} \cup Lower)
    /\ m.Command[1] \notin {AT, COLON}
    /\ \A k \in 1..(Len(m.Params) - 1) :
          m.Params[k] # <<>> /\ ~Contains(m.Params[k], {SP, COLON, CR, LF})
    /\ Len(m.Params) > 0 => ~Contains(m.Params[Len(m.Params)], {CR, LF})

\* C20: a well-formed message, rendered by String of src/irc.go or by Bytes
\* or String of src/unnamed/part_000 with its tags in any order and parsed
\* by Parse of src/unnamed/part_000, reads back as itself: same tags,
\* prefix, command and params.
C20_RenderParseIdentity ==
    (pc = "Reparse" /\ WellFormed(msg)) => msg2 = msg

\* A message with two tags, one value holding bytes the serializer escapes,
\* has been rendered and read back.
C20_Witness ==
    /\ pc = "Reparse"
    /\ WellFormed(msg)
    /\ msg2 = msg
    /\ Cardinality(DOMAIN msg.Tags) = 2
    /\ \E key \in DOMAIN msg.Tags : Contains(msg.Tags[key], {SEMI, SP, BACKSLASH})
=============================================================================
